---------------------------- MODULE Spec2Model ----------------------------
(***************************************************************************)
(* Model of src/monitor.py: the announcement monitor (AnnouncementMonitor) *)
(* with its three source adapters (WeixinPaySource, TencentCloudSource,    *)
(* YeepaySource), the webhook notifier (send_notification) and the poll    *)
(* loop (run / check_updates).                                             *)
(*                                                                         *)
(* Texts are TLA+ strings; the conversions of the code (str.split,         *)
(* strptime, fromtimestamp + strftime, the f-strings) are computed on them *)
(* character by character.  A call that may raise returns Ok(v) or Raised. *)
(***************************************************************************)
EXTENDS Integers, Sequences, FiniteSets, TLC

(***************************************************************************)
(* Bounds of the model.                                                    *)
(***************************************************************************)
\* most adapters registered with the monitor
MaxSources == 2
\* longest listing one HTTP response carries
MaxItems == 1

\* the result of a call: a value, or an exception raised
Ok(v) == [ok |-> TRUE, val |-> v]
Raised == [ok |-> FALSE]

\* self.debug_time = None
NoDate == <<>>

(***************************************************************************)
(* Text helpers.                                                           *)
(***************************************************************************)
Char(s, i) == SubSeq(s, i, i)

Digits == {"0", "1", "2", "3", "4", "5", "6", "7", "8", "9"}

DigitVal(c) ==
    CASE c = "0" -> 0 [] c = "1" -> 1 [] c = "2" -> 2 [] c = "3" -> 3
      [] c = "4" -> 4 [] c = "5" -> 5 [] c = "6" -> 6 [] c = "7" -> 7
      [] c = "8" -> 8 [] c = "9" -> 9

DigitChar(n) ==
    CASE n = 0 -> "0" [] n = 1 -> "1" [] n = 2 -> "2" [] n = 3 -> "3"
      [] n = 4 -> "4" [] n = 5 -> "5" [] n = 6 -> "6" [] n = 7 -> "7"
      [] n = 8 -> "8" [] n = 9 -> "9"

AllDigits(s) == \A i \in 1..Len(s) : Char(s, i) \in Digits

RECURSIVE ToInt(_)
\* int() of a string of digits
ToInt(s) ==
    IF Len(s) = 0 THEN 0
    ELSE 10 * ToInt(SubSeq(s, 1, Len(s) - 1)) + DigitVal(Char(s, Len(s)))

\* "%02d" % n
Pad2(n) == DigitChar((n \div 10) % 10) \o DigitChar(n % 10)

\* "%04d" % n
Pad4(n) == DigitChar((n \div 1000) % 10) \o DigitChar((n \div 100) % 10)
             \o DigitChar((n \div 10) % 10) \o DigitChar(n % 10)

RECURSIVE SplitOn(_, _)
\* str.split(sep) for a one-character sep: the fields between the separators
SplitOn(s, sep) ==
    IF \E i \in 1..Len(s) : Char(s, i) = sep
    THEN LET i == CHOOSE j \in 1..Len(s) :
                     /\ Char(s, j) = sep
                     /\ \A k \in 1..(j - 1) : Char(s, k) # sep
         IN  <<SubSeq(s, 1, i - 1)>> \o SplitOn(SubSeq(s, i + 1, Len(s)), sep)
    ELSE <<s>>

\* str.split() without argument: the fields between runs of whitespace,
\* empty fields dropped
SplitWs(s) == SelectSeq(SplitOn(s, " "), LAMBDA f : f # "")

\* str.strip()
RECURSIVE Strip(_)
Strip(s) ==
    IF Len(s) > 0 /\ Char(s, 1) = " " THEN Strip(SubSeq(s, 2, Len(s)))
    ELSE IF Len(s) > 0 /\ Char(s, Len(s)) = " "
         THEN Strip(SubSeq(s, 1, Len(s) - 1))
         ELSE s

(***************************************************************************)
(* Calendar.  A date is <<year, month, day>>.                              *)
(***************************************************************************)
IsLeap(y) == (y % 4 = 0 /\ y % 100 # 0) \/ y % 400 = 0

DaysInMonth(y, m) ==
    IF m = 2 THEN (IF IsLeap(y) THEN 29 ELSE 28)
    ELSE IF m \in {4, 6, 9, 11} THEN 30 ELSE 31

\* date comparison a >= b, as datetime.date compares
DateGE(a, b) ==
    \/ a[1] > b[1]
    \/ a[1] = b[1] /\ a[2] > b[2]
    \/ a[1] = b[1] /\ a[2] = b[2] /\ a[3] >= b[3]

\* datetime.strptime(s, "%Y-%m-%d"): %Y is four digits, %m and %d one or
\* two digits in range; anything else raises ValueError
Strptime(s) ==
    LET f == SplitOn(s, "-")
    IN  IF /\ Len(f) = 3
           /\ Len(f[1]) = 4 /\ AllDigits(f[1])
           /\ Len(f[2]) \in {1, 2} /\ AllDigits(f[2])
           /\ Len(f[3]) \in {1, 2} /\ AllDigits(f[3])
           /\ ToInt(f[1]) >= 1
           /\ ToInt(f[2]) \in 1..12
           /\ ToInt(f[3]) \in 1..DaysInMonth(ToInt(f[1]), ToInt(f[2]))
        THEN Ok(<<ToInt(f[1]), ToInt(f[2]), ToInt(f[3])>>)
        ELSE Raised

\* datetime.fromtimestamp(ts), the process running in UTC: the civil date
\* and clock time of ts seconds after 1970-01-01 00:00:00
FromTimestamp(ts) ==
    LET z   == (ts \div 86400) + 719468
        era == z \div 146097
        doe == z - era * 146097
        yoe == (doe - doe \div 1460 + doe \div 36524 - doe \div 146096) \div 365
        doy == doe - (365 * yoe + yoe \div 4 - yoe \div 100)
        mp  == (5 * doy + 2) \div 153
        d   == doy - (153 * mp + 2) \div 5 + 1
        m   == IF mp < 10 THEN mp + 3 ELSE mp - 9
        y   == yoe + era * 400 + (IF m <= 2 THEN 1 ELSE 0)
        sec == ts % 86400
    IN  [date |-> <<y, m, d>>,
         clock |-> <<sec \div 3600, (sec % 3600) \div 60, sec % 60>>]

\* strftime('%Y-%m-%d')
StrfDate(d) == Pad4(d[1]) \o "-" \o Pad2(d[2]) \o "-" \o Pad2(d[3])

\* strftime('%H:%M:%S')
StrfTime(c) == Pad2(c[1]) \o ":" \o Pad2(c[2]) \o ":" \o Pad2(c[3])

(***************************************************************************)
(* The outside world: what the providers and the webhook may answer.       *)
(***************************************************************************)
\* requests.get / requests.post raising (connection error, timeout)
NetErr == [kind |-> "neterr"]

\* raw records of the WeixinPay JSON listing ('contentlist')
WeixinRaw ==
    { [contentId |-> "6201", contentTitle |-> "A_2025-01-10",
       contentPublishTime |-> 1737365400],
      [contentId |-> "6203", contentTitle |-> "C"] }

\* rows of the Tencent Cloud announcement page (.msg-list-item): the text
\* and href of the link, the text of the time span, and which of "link",
\* "href", "span" the markup of the row lacks
TencentRows ==
    { [text |-> " A ", href |-> "/announce/detail/101", span |-> " 2025-01-10 ",
       lacks |-> {}],
      [text |-> "C", href |-> "/announce/detail/103", span |-> "", lacks |-> {}],
      [text |-> "D", href |-> "", span |-> "2025-01-21", lacks |-> {"href"}] }

\* rows of the Yeepay notice table (.ant-table-tbody tr)
YeepayRows ==
    { [text |-> "A", href |-> "/notice-detail/7", span |-> "2025-01-10", lacks |-> {}],
      [text |-> "A", href |-> "/notice-detail/8", span |-> "2025-01-10 08:00:00",
       lacks |-> {}],
      [text |-> "C", href |-> "/notice-detail/9", span |-> "2025/01/22", lacks |-> {}] }

\* the sequences over S of length at most n
SeqUpTo(S, n) == UNION { [1..k -> S] : k \in 0..n }

\* what one GET of the WeixinPay endpoint may answer: no answer, an error
\* status, a body that is not JSON, an error code, a listing
WeixinResponses ==
    {NetErr, [kind |-> "http", status |-> 500, json |-> Raised]}
      \cup {[kind |-> "http", status |-> 200, json |-> Raised]}
      \cup {[kind |-> "http", status |-> 200,
             json |-> Ok([errorcode |-> 1, contentlist |-> <<>>])]}
      \cup {[kind |-> "http", status |-> 200,
             json |-> Ok([errorcode |-> 0, contentlist |-> l])] :
               l \in SeqUpTo(WeixinRaw, MaxItems)}

\* what one GET of an HTML page may answer
HtmlResponses(rows) ==
    {NetErr, [kind |-> "http", status |-> 503, rows |-> <<>>]}
      \cup {[kind |-> "http", status |-> 200, rows |-> l] :
               l \in SeqUpTo(rows, MaxItems)}

\* what the webhook POST may answer
PostResponses == {NetErr, [kind |-> "http", status |-> 200],
                   [kind |-> "http", status |-> 500]}

\* what os.getenv('WEBHOOK_URL', '') may give: nothing or a URL
WebhookUrls == {"", "https://qyapi.weixin.qq.com/cgi-bin/webhook/send?key=k"}

\* the argument an operator may pass to set_debug_time
DebugTimes == {"2025-01-15"}

(***************************************************************************)
(* The source adapters.                                                    *)
(***************************************************************************)
Weixin == "WeixinPaySource"
Tencent == "TencentCloudSource"
Yeepay == "YeepaySource"
Adapters == {Weixin, Tencent, Yeepay}

\* the provider names the adapters put in the 'source' field (Chinese in
\* the code, transliterated here)
WeixinName == "WeixinPay"
TencentName == "TencentCloud"
YeepayName == "Yeepay"

\* one listing of WeixinPaySource.get_announcements: the records the
\* response contributes, Raise when response.json() raises
WeixinListing(r) ==
    IF r.status = 200
    THEN IF ~r.json.ok THEN Raised
         ELSE IF r.json.val.errorcode = 0 THEN Ok(r.json.val.contentlist)
              ELSE Ok(<<>>)
    ELSE Ok(<<>>)

\* WeixinPaySource.get_announcements: both requests are made first, then
\* the normal listing and the pinned listing are appended; nothing is caught
WeixinGet(r1, r2) ==
    IF r1.kind = "neterr" \/ r2.kind = "neterr" THEN Raised
    ELSE IF ~WeixinListing(r1).ok \/ ~WeixinListing(r2).ok THEN Raised
         ELSE Ok(WeixinListing(r1).val \o WeixinListing(r2).val)

\* WeixinPaySource.format_notification
WeixinFormat(item) ==
    IF {"contentPublishTime", "contentTitle", "contentId"} \subseteq DOMAIN item
    THEN LET publish_time == FromTimestamp(item.contentPublishTime)
         IN  Ok([title |-> item.contentTitle,
              date |-> StrfDate(publish_time.date),
              time |-> StrfTime(publish_time.clock),
              url |-> "https://pay.weixin.qq.com/index.php/public/cms/content_detail?id="
                        \o item.contentId,
              source |-> WeixinName])
    ELSE Raised

\* href.split('/')[-1]
LastSegment(href) == LET f == SplitOn(href, "/") IN f[Len(f)]

RECURSIVE HtmlRows(_, _, _)
\* the row loop of TencentCloudSource / YeepaySource.get_announcements: a
\* row with its link and its time cell is kept, a row whose link has no
\* href raises inside the inner try and is skipped
HtmlRows(rows, idField, timeField) ==
    IF rows = <<>> THEN <<>>
    ELSE LET row == Head(rows)
             rest == HtmlRows(Tail(rows), idField, timeField)
         IN  IF "link" \notin row.lacks /\ "span" \notin row.lacks
             THEN IF "href" \in row.lacks THEN rest
                  ELSE <<(idField :> LastSegment(row.href))
                          @@ (timeField :> Strip(row.span))
                          @@ [title |-> Strip(row.text)]>> \o rest
             ELSE rest

\* TencentCloudSource.get_announcements
TencentGet(r) ==
    IF r.kind = "neterr" THEN Ok(<<>>)
    ELSE IF r.status # 200 THEN Ok(<<>>)
         ELSE Ok(HtmlRows(r.rows, "announceId", "beginTime"))

\* YeepaySource.get_announcements
YeepayGet(r) ==
    IF r.kind = "neterr" THEN Ok(<<>>)
    ELSE IF r.status # 200 THEN Ok(<<>>)
         ELSE Ok(HtmlRows(r.rows, "noticeId", "pubTime"))

\* TencentCloudSource.format_notification
TencentFormat(item) ==
    LET date_time == SplitWs(item.beginTime)
    IN  IF Len(date_time) = 0 THEN Raised
        ELSE Ok([title |-> item.title,
              date |-> date_time[1],
              time |-> IF Len(date_time) > 1 THEN date_time[2] ELSE "",
              url |-> "https://cloud.tencent.com/announce/detail/" \o item.announceId,
              source |-> TencentName])

\* YeepaySource.format_notification
YeepayFormat(item) ==
    LET date_time == SplitWs(item.pubTime)
    IN  IF Len(date_time) = 0 THEN Raised
        ELSE Ok([title |-> item.title,
              date |-> date_time[1],
              time |-> IF Len(date_time) > 1 THEN date_time[2] ELSE "",
              url |-> "https://www.yeepay.com/notice-detail/" \o item.noticeId,
              source |-> YeepayName])

\* source.format_notification(raw_item), dispatched on the adapter
FormatNotification(source, raw_item) ==
    CASE source = Weixin -> WeixinFormat(raw_item)
      [] source = Tencent -> TencentFormat(raw_item)
      [] source = Yeepay -> YeepayFormat(raw_item)

\* mutant: the key without the source
ItemKeyNoSource(item) == item.title \o "_" \o item.date

\* item_key = f"{item['source']}_{item['title']}_{item['date']}"
ItemKey(item) == item.source \o "_" \o item.title \o "_" \o item.date

(***************************************************************************)
(* The monitor.                                                            *)
(***************************************************************************)
VARIABLES
    WEBHOOK_URL,    \* the module-level setting read from the environment
    sources,        \* self.sources: the adapters in registration order
    last_items,     \* self.last_items: the Ledger, a set of item keys
    debug_time,     \* self.debug_time: NoDate or the cutoff date
    is_first_run,   \* self.is_first_run
    pc,             \* where the process is: "start", "failed", "setup", "loop",
                    \* "fetch", "item", "sleep"
    srcIdx,         \* check_updates: position of 'source' in self.sources
    items,          \* check_updates: the list the current source returned
    itemIdx,        \* check_updates: position of 'raw_item' in items
    cycle,          \* history: which check_updates call: "none", "first", "later"
    startItems,     \* history: last_items when the current cycle started
    startFirst,     \* history: is_first_run when the current cycle started
    fetched,        \* history: the (adapter, raw item) pairs fetched this cycle
    arrived,        \* history: the same pairs in the order the fetches of this
                    \* cycle returned them
    sent,           \* history: the items passed to send_notification this cycle
    err,            \* history: the exception the current cycle ended with, if any
    call,           \* history: the send_notification call of the latest step, if any
    notified,       \* history: the keys send_notification was ever invoked for
    renotified,     \* history: the keys it was invoked for more than once
    earlier,        \* history: the fetched set of one cycle that completed, kept
                    \* as <<set>>, or <<>>
    answers,        \* history: the responses the get_announcements call of the
                    \* latest step received, in request order, or <<>>
    published       \* the world: an (adapter, raw item) pair the provider's feed
                    \* held when the monitor started and shows in every listing
                    \* that is not empty, as <<pair>>; <<>> when the feeds are
                    \* left free

vars == <<WEBHOOK_URL, sources, last_items, debug_time, is_first_run, pc, srcIdx, items,
          itemIdx, cycle, startItems, startFirst, fetched, arrived, sent, err, call,
          notified, renotified, earlier, answers, published>>

\* what the process does not change
outside == <<WEBHOOK_URL, published>>

monitor == <<sources, last_items, debug_time, is_first_run>>

NoErr == [kind |-> "none", src |-> 0]
NoCall == [made |-> FALSE]

Range(f) == {f[i] : i \in DOMAIN f}

\* the process when the module is loaded: the setting is whatever the
\* environment holds, no monitor exists yet (its fields are given the values
\* AnnouncementMonitor.__init__ will assign)
Init ==
    /\ WEBHOOK_URL \in WebhookUrls
    /\ sources = <<>>
    /\ last_items = {}
    /\ debug_time = NoDate
    /\ is_first_run = TRUE
    /\ pc = "start"
    /\ published = <<>>
    /\ srcIdx = 0
    /\ items = <<>>
    /\ itemIdx = 0
    /\ cycle = "none"
    /\ startItems = {}
    /\ startFirst = TRUE
    /\ fetched = {}
    /\ arrived = <<>>
    /\ sent = <<>>
    /\ err = NoErr
    /\ call = NoCall
    /\ notified = {}
    /\ renotified = {}
    /\ earlier = <<>>
    /\ answers = <<>>

\* mutant: the setting is not looked at
MissingNever(url) == FALSE

\* 'if not WEBHOOK_URL'
Missing(url) == url = ""

\* module load up to the construction of the monitor in __main__: without
\* the setting ValueError is raised and the process ends
Startup ==
    /\ pc = "start"
    /\ pc' = IF Missing(WEBHOOK_URL) THEN "failed" ELSE "setup"
    /\ UNCHANGED <<outside, monitor, srcIdx, items, itemIdx, cycle,
                   startItems, startFirst, fetched, arrived, sent, err, call, notified,
                   renotified, earlier, answers>>

\* AnnouncementMonitor.add_source (each adapter class is registered once)
AddSource(source) ==
    /\ pc = "setup"
    /\ UNCHANGED outside
    /\ source \notin Range(sources)
    /\ Len(sources) < MaxSources
    /\ sources' = Append(sources, source)
    /\ UNCHANGED <<last_items, debug_time, is_first_run, pc, srcIdx, items,
                   itemIdx, cycle, startItems, startFirst, fetched, arrived, sent, err,
                   call, notified, renotified, earlier, answers>>

\* AnnouncementMonitor.set_debug_time
SetDebugTime(debug_time_str) ==
    /\ pc = "setup"
    /\ UNCHANGED outside
    /\ debug_time = NoDate
    /\ Strptime(debug_time_str).ok
    /\ debug_time' = Strptime(debug_time_str).val
    /\ UNCHANGED <<sources, last_items, is_first_run, pc, srcIdx, items,
                   itemIdx, cycle, startItems, startFirst, fetched, arrived, sent, err,
                   call, notified, renotified, earlier, answers>>

\* AnnouncementMonitor.run up to the while loop
Run ==
    /\ pc = "setup"
    /\ UNCHANGED outside
    /\ pc' = "loop"
    /\ UNCHANGED <<monitor, srcIdx, items, itemIdx, cycle, startItems,
                   startFirst, fetched, arrived, sent, err, call, notified, renotified,
                   earlier, answers>>

\* the monitor as __main__ builds it, when it calls run: the three adapters
\* in the order of the add_source calls, the debug cutoff set or not
MainRun ==
    /\ WEBHOOK_URL \in WebhookUrls \ {""}
    /\ sources = <<Weixin, Tencent, Yeepay>>
    /\ last_items = {}
    /\ debug_time \in {NoDate} \cup {Strptime(d).val : d \in DebugTimes}
    /\ is_first_run = TRUE
    /\ pc = "loop"
    /\ srcIdx = 0
    /\ items = <<>>
    /\ itemIdx = 0
    /\ cycle = "none"
    /\ startItems = {}
    /\ startFirst = TRUE
    /\ fetched = {}
    /\ arrived = <<>>
    /\ sent = <<>>
    /\ err = NoErr
    /\ call = NoCall
    /\ notified = {}
    /\ renotified = {}
    /\ earlier = <<>>
    /\ answers = <<>>

MainInit == MainRun /\ published = <<>>

\* run: the loop calls check_updates, which enters its try block
CheckUpdates ==
    /\ pc = "loop"
    /\ UNCHANGED outside
    /\ pc' = "fetch"
    /\ srcIdx' = 1
    /\ items' = <<>>
    /\ itemIdx' = 0
    /\ cycle' = IF cycle = "none" THEN "first" ELSE "later"
    /\ startItems' = last_items
    /\ startFirst' = is_first_run
    /\ fetched' = {}
    /\ arrived' = <<>>
    /\ sent' = <<>>
    /\ err' = NoErr
    /\ call' = NoCall
    /\ answers' = <<>>
    /\ UNCHANGED <<monitor, notified, renotified, earlier>>

\* mutant: the handler lets the exception out of check_updates and run
OnExceptionReraise == "crashed"

\* check_updates, 'except Exception': where the process goes when anything
\* inside the try block raises (the handler prints and check_updates returns
\* into run, which sleeps)
OnException == "sleep"

\* mutant: the end of the first run placed in a 'finally' clause
ExceptFinally(kind) ==
    /\ pc' = OnException
    /\ err' = [kind |-> kind, src |-> srcIdx]
    /\ items' = <<>>
    /\ itemIdx' = 0
    /\ is_first_run' = FALSE
    /\ UNCHANGED <<sources, last_items, debug_time, srcIdx, cycle, startItems,
                   startFirst, earlier>>

\* mutant: the handler puts the Ledger back as the cycle found it
ExceptRollback(kind) ==
    /\ pc' = OnException
    /\ err' = [kind |-> kind, src |-> srcIdx]
    /\ items' = <<>>
    /\ itemIdx' = 0
    /\ last_items' = startItems
    /\ UNCHANGED <<sources, debug_time, is_first_run, srcIdx, cycle, startItems,
                   startFirst, earlier>>

\* check_updates, an exception inside the try block: the loops are left at
\* the adapter they stand at, the monitor's fields as they are
Except(kind) ==
    /\ pc' = OnException
    /\ err' = [kind |-> kind, src |-> srcIdx]
    /\ items' = <<>>
    /\ itemIdx' = 0
    /\ UNCHANGED <<monitor, srcIdx, cycle, startItems, startFirst, earlier>>

\* mutant: the loop over the items left after its first item
NextPositionDropRest(n) ==
    /\ itemIdx' = 0
    /\ items' = <<>>
    /\ pc' = "fetch"
    /\ srcIdx' = srcIdx + 1

\* the for loops of check_updates: what follows the item at itemIdx of a
\* list of n items
NextPosition(n) ==
    IF itemIdx < n
    THEN /\ itemIdx' = itemIdx + 1
         /\ pc' = "item"
         /\ UNCHANGED <<srcIdx, items>>
    ELSE /\ itemIdx' = 0
         /\ items' = <<>>
         /\ pc' = "fetch"
         /\ srcIdx' = srcIdx + 1

\* source.get_announcements() for the adapter at srcIdx, given its result
Fetched(result) ==
    IF ~result.ok
    THEN /\ Except("fetch")
         /\ call' = NoCall
         /\ UNCHANGED <<fetched, arrived, sent, notified, renotified>>
    ELSE /\ items' = result.val
         /\ IF Len(result.val) > 0
            THEN /\ itemIdx' = 1
                 /\ pc' = "item"
                 /\ UNCHANGED srcIdx
            ELSE /\ itemIdx' = 0
                 /\ pc' = "fetch"
                 /\ srcIdx' = srcIdx + 1
         /\ fetched' = fetched \cup
                 {[source |-> sources[srcIdx], raw |-> result.val[i]] :
                      i \in 1..Len(result.val)}
         /\ arrived' = arrived \o
                 [i \in 1..Len(result.val) |->
                      [source |-> sources[srcIdx], raw |-> result.val[i]]]
         /\ call' = NoCall
         /\ UNCHANGED <<monitor, cycle, startItems, startFirst, sent, err,
                        notified, renotified, earlier>>

\* what get_announcements of each adapter may come back with, over all the
\* answers of the provider
WeixinResults ==
    {WeixinGet(response1, response2) : response1, response2 \in WeixinResponses}
TencentResults == {TencentGet(response) : response \in HtmlResponses(TencentRows)}
YeepayResults == {YeepayGet(response) : response \in HtmlResponses(YeepayRows)}

\* the get_announcements calls of each adapter over all the answers of the
\* provider: the responses received and what the call comes back with
WeixinCalls ==
    {[responses |-> <<response1, response2>>,
      result |-> WeixinGet(response1, response2)] :
         response1, response2 \in WeixinResponses}
TencentCalls ==
    {[responses |-> <<response>>, result |-> TencentGet(response)] :
         response \in HtmlResponses(TencentRows)}
YeepayCalls ==
    {[responses |-> <<response>>, result |-> YeepayGet(response)] :
         response \in HtmlResponses(YeepayRows)}

\* the result agrees with the feed: a list of the adapter of the published
\* announcement is empty or holds it
Shows(source, result) ==
    IF published = <<>> THEN TRUE
    ELSE IF published[1].source # source \/ ~result.ok THEN TRUE
         ELSE result.val = <<>> \/ published[1].raw \in Range(result.val)

\* check_updates: items = source.get_announcements(), one disjunct per
\* adapter.  The history keeps the responses of the call when asked to.
Fetch(keep) ==
    /\ pc = "fetch"
    /\ UNCHANGED outside
    /\ srcIdx <= Len(sources)
    /\ \/ /\ sources[srcIdx] = Weixin
          /\ \E c \in WeixinCalls :
                /\ Shows(Weixin, c.result)
                /\ Fetched(c.result)
                /\ answers' = IF keep THEN c.responses ELSE <<>>
       \/ /\ sources[srcIdx] = Tencent
          /\ \E c \in TencentCalls :
                /\ Shows(Tencent, c.result)
                /\ Fetched(c.result)
                /\ answers' = IF keep THEN c.responses ELSE <<>>
       \/ /\ sources[srcIdx] = Yeepay
          /\ \E c \in YeepayCalls :
                /\ Shows(Yeepay, c.result)
                /\ Fetched(c.result)
                /\ answers' = IF keep THEN c.responses ELSE <<>>

GetAnnouncements == Fetch(FALSE)

\* mutant: NORMAL mode without the is_first_run test, the baseline is notified
DecideNoBaseline(debug, first, ledger, item_date, item_key) ==
    IF debug # NoDate /\ DateGE(item_date, debug)
    THEN IF ~first /\ item_key \notin ledger THEN "notify"
         ELSE IF first THEN "add" ELSE "skip"
    ELSE IF debug = NoDate /\ item_key \notin ledger
         THEN "notify"
         ELSE "skip"

\* mutant: the second branch taken with a cutoff set too
DecideFallThrough(debug, first, ledger, item_date, item_key) ==
    IF debug # NoDate /\ DateGE(item_date, debug)
    THEN IF ~first /\ item_key \notin ledger THEN "notify"
         ELSE IF first THEN "add" ELSE "skip"
    ELSE IF item_key \notin ledger
         THEN IF ~first THEN "notify" ELSE "add"
         ELSE "skip"

\* mutant: DEBUG mode without the is_first_run test
DecideDebugNotifies(debug, first, ledger, item_date, item_key) ==
    IF debug # NoDate /\ DateGE(item_date, debug)
    THEN IF item_key \notin ledger THEN "notify" ELSE "skip"
    ELSE IF debug = NoDate /\ item_key \notin ledger
         THEN IF ~first THEN "notify" ELSE "add"
         ELSE "skip"

\* mutant: NORMAL mode without the Ledger lookup
DecideNoLookup(debug, first, ledger, item_date, item_key) ==
    IF debug # NoDate /\ DateGE(item_date, debug)
    THEN IF ~first /\ item_key \notin ledger THEN "notify"
         ELSE IF first THEN "add" ELSE "skip"
    ELSE IF debug = NoDate
         THEN IF ~first THEN "notify" ELSE "add"
         ELSE "skip"

\* check_updates, the two branches on an item: "notify" (send_notification
\* then add), "add" (add only) or "skip"
Decide(debug, first, ledger, item_date, item_key) ==
    IF debug # NoDate /\ DateGE(item_date, debug)
    THEN IF ~first /\ item_key \notin ledger THEN "notify"
         ELSE IF first THEN "add" ELSE "skip"
    ELSE IF debug = NoDate /\ item_key \notin ledger
         THEN IF ~first THEN "notify" ELSE "add"
         ELSE "skip"

\* send_notification: the message posted to the webhook (the inspection
\* time appended to it is wall-clock time and is left out)
Message(item) ==
    [msgtype |-> "markdown",
     content |-> "### [" \o item.source \o "] new announcement\n\n"
                   \o "**title**: " \o item.title \o "\n\n"
                   \o "**time**: " \o item.date \o " " \o item.time \o "\n\n"
                   \o "**link**: [details](" \o item.url \o ")"]

\* mutant: response.raise_for_status() after the post
SendNotificationRaiseForStatus(item, response) ==
    IF response.kind = "neterr" THEN Raised
    ELSE IF response.status # 200 THEN Raised ELSE Ok(Message(item))

\* send_notification: requests.post raising propagates; a status other
\* than 200 is printed and the call returns
SendNotification(item, response) ==
    IF response.kind = "neterr" THEN Raised ELSE Ok(Message(item))

\* how the delivery of a call ended
Outcome(response) ==
    IF response.kind = "neterr" THEN "raised"
    ELSE IF response.status = 200 THEN "delivered" ELSE "rejected"

\* check_updates, the first three lines of the body of 'for raw_item in
\* items': item, item_date and item_key, or the line that raised
Normalize(source, raw_item) ==
    LET formatted == FormatNotification(source, raw_item)
    IN  IF ~formatted.ok THEN [ok |-> FALSE, raised |-> "format"]
        ELSE LET parsed == Strptime(formatted.val.date)
             IN  IF ~parsed.ok THEN [ok |-> FALSE, raised |-> "date"]
                 ELSE [ok |-> TRUE, item |-> formatted.val,
                       item_date |-> parsed.val,
                       item_key |-> ItemKey(formatted.val)]

\* the (adapter, raw item) pairs the adapters can return
RawPairs ==
    UNION { {[source |-> Weixin, raw |-> r.val[i]] : i \in 1..Len(r.val)} :
              r \in {q \in WeixinResults : q.ok} }
      \cup UNION { {[source |-> Tencent, raw |-> r.val[i]] : i \in 1..Len(r.val)} :
                     r \in TencentResults }
      \cup UNION { {[source |-> Yeepay, raw |-> r.val[i]] : i \in 1..Len(r.val)} :
                     r \in YeepayResults }

\* Normalize, tabulated over the pairs the adapters can return
Normalization == [p \in RawPairs |-> Normalize(p.source, p.raw)]

\* check_updates: the body of 'for raw_item in items' for the item at itemIdx
ProcessItem ==
    /\ pc = "item"
    /\ UNCHANGED outside
    /\ answers' = <<>>
    /\ LET n == Normalization[[source |-> sources[srcIdx], raw |-> items[itemIdx]]]
       IN  IF ~n.ok
           THEN /\ Except(n.raised)
                /\ call' = NoCall
                /\ UNCHANGED <<fetched, arrived, sent, notified, renotified>>
           ELSE
               LET item == n.item
                   item_key == n.item_key
                   todo == Decide(debug_time, is_first_run, last_items,
                                  n.item_date, item_key)
               IN  IF todo = "notify"
                   THEN \E response \in PostResponses :
                          /\ call' = [made |-> TRUE, key |-> item_key, item |-> item,
                                      outcome |-> Outcome(response)]
                          /\ notified' = notified \cup {item_key}
                          /\ renotified' = IF item_key \in notified
                                           THEN renotified \cup {item_key}
                                           ELSE renotified
                          /\ sent' = Append(sent, item)
                          /\ IF SendNotification(item, response).ok
                             THEN /\ last_items' = last_items \cup {item_key}
                                  /\ NextPosition(Len(items))
                                  /\ UNCHANGED <<sources, debug_time, is_first_run,
                                                 cycle, startItems, startFirst,
                                                 fetched, arrived, err, earlier>>
                             ELSE /\ Except("post")
                                  /\ UNCHANGED <<fetched, arrived>>
                   ELSE /\ last_items' = IF todo = "add"
                                         THEN last_items \cup {item_key}
                                         ELSE last_items
                        /\ NextPosition(Len(items))
                        /\ call' = NoCall
                        /\ UNCHANGED <<sources, debug_time, is_first_run, cycle,
                                       startItems, startFirst, fetched, arrived, sent, err,
                                       notified, renotified, earlier>>

\* mutant: the first run ends when an adapter has been gone through
FinishPerAdapter(remember) ==
    /\ pc = "fetch"
    /\ UNCHANGED outside
    /\ srcIdx > 1
    /\ is_first_run' = FALSE
    /\ pc' = "sleep"
    /\ earlier' = IF remember THEN <<fetched>> ELSE earlier
    /\ call' = NoCall
    /\ answers' = <<>>
    /\ UNCHANGED <<sources, last_items, debug_time, srcIdx, items, itemIdx,
                   cycle, startItems, startFirst, fetched, arrived, sent, err, notified,
                   renotified>>

\* check_updates after the loop over the sources: the first run is over.
\* The history keeps what this cycle fetched when asked to remember it.
Finish(remember) ==
    /\ pc = "fetch"
    /\ UNCHANGED outside
    /\ srcIdx > Len(sources)
    /\ is_first_run' = FALSE
    /\ pc' = "sleep"
    /\ earlier' = IF remember THEN <<fetched>> ELSE earlier
    /\ call' = NoCall
    /\ answers' = <<>>
    /\ UNCHANGED <<sources, last_items, debug_time, srcIdx, items, itemIdx,
                   cycle, startItems, startFirst, fetched, arrived, sent, err, notified,
                   renotified>>

FinishCycle == Finish(FALSE)

\* run: time.sleep(POLL_INTERVAL), then the loop goes round
Sleep ==
    /\ pc = "sleep"
    /\ UNCHANGED outside
    /\ pc' = "loop"
    /\ call' = NoCall
    /\ answers' = <<>>
    /\ UNCHANGED <<monitor, srcIdx, items, itemIdx, cycle, startItems,
                   startFirst, fetched, arrived, sent, err, notified, renotified, earlier>>

\* a monitor set up through add_source and set_debug_time in any order,
\* then run
Next ==
    \/ Startup
    \/ \E source \in Adapters : AddSource(source)
    \/ \E debug_time_str \in DebugTimes : SetDebugTime(debug_time_str)
    \/ Run
    \/ CheckUpdates
    \/ GetAnnouncements
    \/ ProcessItem
    \/ FinishCycle
    \/ Sleep

Spec == Init /\ [][Next]_vars

\* the poll loop of the monitor __main__ builds, the history free to
\* remember what a completed cycle fetched and what a fetch was answered
MainNext ==
    \/ CheckUpdates
    \/ \E keep \in BOOLEAN : Fetch(keep)
    \/ ProcessItem
    \/ \E remember \in BOOLEAN : Finish(remember)
    \/ Sleep

MainSpec == MainInit /\ [][MainNext]_vars

\* the poll loop of the monitor __main__ builds, with the scheduling the
\* code has: every call returns or raises, the sleep ends
LiveNext ==
    \/ CheckUpdates
    \/ GetAnnouncements
    \/ ProcessItem
    \/ FinishCycle
    \/ Sleep

LiveSpec ==
    /\ MainInit /\ [][LiveNext]_vars
    /\ WF_vars(CheckUpdates) /\ WF_vars(GetAnnouncements)
    /\ WF_vars(ProcessItem) /\ WF_vars(FinishCycle) /\ WF_vars(Sleep)

\* the monitor __main__ builds, watching feeds that hold an announcement
\* when it starts
FeedInit ==
    /\ MainRun
    /\ published \in {<<p>> : p \in {q \in RawPairs : Normalization[q].ok}}

FeedSpec == FeedInit /\ [][LiveNext]_vars

(***************************************************************************)
(* Vocabulary of the properties.                                           *)
(***************************************************************************)
\* a fetched (adapter, raw item) pair is an announcement: it normalizes and
\* its date parses
Normalizes(p) == Normalization[p].ok

Normalized(p) == Normalization[p].item

AllNormalize(F) == \A p \in F : Normalizes(p)

\* the IdentityKeys of the announcements in a fetched set
KeysOf(F) == {ItemKey(Normalized(p)) : p \in {q \in F : Normalizes(q)}}

\* the announcement is a candidate under the cutoff in force
OnOrAfterCutoff(p) ==
    debug_time # NoDate =>
        DateGE(Normalization[p].item_date, debug_time)

CandidateKeys(F) ==
    {ItemKey(Normalized(p)) : p \in {q \in F : Normalizes(q) /\ OnOrAfterCutoff(q)}}

\* check_updates has returned
CycleOver == pc = "sleep"

\* every adapter has returned its items and they have been gone through
RanThrough == srcIdx > Len(sources)

\* the adapter at position j was fetched in the current cycle
WasFetched(j) == j < srcIdx \/ (j = srcIdx /\ (pc = "item" \/ err.kind \in {"format", "date", "post"}))

(***************************************************************************)
(* C1.  First poll cycle, N distinct announcements fetched: no call of     *)
(* send_notification, and the Ledger holds exactly N keys at the end.      *)
(***************************************************************************)
\* C1 as stated: in the first cycle, when what the adapters returned are N
\* distinct announcements, nothing is sent and the Ledger ends with N keys
C1_AsStated ==
    (cycle = "first" /\ CycleOver /\ AllNormalize(fetched)) =>
        /\ sent = <<>>
        /\ Cardinality(last_items) = Cardinality(KeysOf(fetched))

\* C1 amended: in the first cycle nothing is sent, and the Ledger ends with
\* exactly the keys of the fetched announcements dated on or after the
\* debug cutoff: all N of them when no cutoff is set
C1_Baseline ==
    (cycle = "first" /\ CycleOver /\ AllNormalize(fetched)) =>
        /\ sent = <<>>
        /\ notified = {}
        /\ last_items = CandidateKeys(fetched)
        /\ debug_time = NoDate =>
               Cardinality(last_items) = Cardinality(KeysOf(fetched))

C1_Witness ==
    /\ cycle = "first" /\ CycleOver /\ err = NoErr
    /\ debug_time = NoDate
    /\ Cardinality(KeysOf(fetched)) = 2
    /\ Cardinality(last_items) = 2

(***************************************************************************)
(* C2.  Baseline established, the cycle fetches the known items plus one   *)
(* item with a new key: exactly one send_notification call, with that      *)
(* announcement's normalized data, and the Ledger grows by that key.       *)
(***************************************************************************)
\* C2 as stated
C2_AsStated ==
    (/\ ~startFirst /\ CycleOver /\ AllNormalize(fetched)
     /\ Cardinality(KeysOf(fetched) \ startItems) = 1) =>
        /\ Len(sent) = 1
        /\ sent[1] \in {Normalized(p) : p \in fetched}
        /\ {ItemKey(sent[1])} = KeysOf(fetched) \ startItems
        /\ last_items = startItems \cup (KeysOf(fetched) \ startItems)

(***************************************************************************)
(* C3.  A cycle that fetches exactly the raw items of an earlier completed *)
(* cycle sends nothing and leaves the Ledger as it was.                    *)
(***************************************************************************)
\* C3: when all adapters of the cycle have returned and what they returned
\* is the set an earlier completed cycle fetched, no send_notification call
\* was made in the cycle and the Ledger is the one the cycle started with
C3_Redelivery ==
    (/\ pc = "fetch" /\ RanThrough
     /\ earlier # <<>> /\ fetched = earlier[1]) =>
        /\ sent = <<>>
        /\ last_items = startItems

C3_Witness ==
    /\ pc = "fetch" /\ RanThrough
    /\ earlier # <<>> /\ fetched = earlier[1]
    /\ Cardinality(fetched) = 2
    /\ cycle = "later"
    /\ last_items # {}

(***************************************************************************)
(* C4.  send_notification is invoked at most once per IdentityKey in the   *)
(* life of the process.                                                    *)
(***************************************************************************)
\* C4 as stated: no key has been passed to send_notification twice
C4_AsStated == renotified = {}

(***************************************************************************)
(* C5.  An adapter whose fetch or normalization raises does not keep the   *)
(* other adapters from being fetched in the same cycle.                    *)
(***************************************************************************)
\* C5 as stated: when the cycle is over and an adapter raised in it, every
\* other registered adapter was fetched in that cycle
C5_AsStated ==
    (CycleOver /\ err.kind \in {"fetch", "format", "date"}) =>
        \A j \in 1..Len(sources) : j # err.src => WasFetched(j)

(***************************************************************************)
(* C6.  DEBUG mode: an announcement dated before the cutoff is never       *)
(* notified; one dated on or after the cutoff that first appears after the *)
(* baseline is notified exactly once.                                      *)
(***************************************************************************)
\* C6 as stated: with a cutoff set, a key dated before the cutoff was never
\* passed to send_notification and no key was passed more than once; and a
\* cycle after the baseline that ran through has notified, exactly once,
\* every candidate it fetched that the Ledger did not hold
C6_AsStated ==
    debug_time # NoDate =>
        /\ renotified = {}
        /\ \A i \in 1..Len(sent) :
               DateGE(Strptime(sent[i].date).val, debug_time)
        /\ (CycleOver /\ ~startFirst /\ err = NoErr) =>
               \A k \in CandidateKeys(fetched) \ startItems :
                   Cardinality({i \in 1..Len(sent) : ItemKey(sent[i]) = k}) = 1

(***************************************************************************)
(* C7.  A delivery the webhook rejects is swallowed.                       *)
(***************************************************************************)
\* C7: a step whose send_notification call got a non-success response puts
\* the key in the Ledger and goes on to the next item or adapter without an
\* exception; and a key that is in the Ledger stays there and is never
\* passed to send_notification again
C7_RejectedSwallowed ==
    [][/\ (call'.made /\ call'.outcome = "rejected") =>
              /\ call'.key \in last_items'
              /\ err' = NoErr
              /\ \/ pc' = "item" /\ srcIdx' = srcIdx /\ itemIdx' = itemIdx + 1
                 \/ pc' = "fetch" /\ srcIdx' = srcIdx + 1 /\ itemIdx = Len(items)
       /\ \A k \in last_items :
              /\ k \in last_items'
              /\ ~(call'.made /\ call'.key = k)
              /\ (k \in renotified' <=> k \in renotified)]_vars

\* a delivery was just rejected, the key is in the Ledger and the next item
\* of the same fetch is up
C7_Witness ==
    /\ call.made /\ call.outcome = "rejected"
    /\ call.key \in last_items
    /\ ~startFirst
    /\ pc = "item" /\ itemIdx = 2

(***************************************************************************)
(* C8.  A cycle in which an error is raised.                               *)
(***************************************************************************)
\* C8 as stated: the cycle is a no-op
C8_AsStated ==
    (CycleOver /\ err # NoErr) =>
        /\ last_items = startItems
        /\ is_first_run = startFirst
        /\ sent = <<>>

\* C8 amended: the rest of the cycle is skipped and nothing is rolled back:
\* is_first_run is as at the start of the cycle, the Ledger is the one at
\* the start plus keys of announcements fetched in the cycle, every
\* notification sent before the error has its key in the Ledger, and the
\* adapters after the failing one have not been reached
C8_RestSkipped ==
    (CycleOver /\ err # NoErr) =>
        /\ is_first_run = startFirst
        /\ startItems \subseteq last_items
        /\ (last_items \ startItems) \subseteq CandidateKeys(fetched)
        /\ \A i \in 1..Len(sent) :
               \/ ItemKey(sent[i]) \in last_items \ startItems
               \/ i = Len(sent) /\ err.kind = "post"
        /\ srcIdx = err.src /\ srcIdx <= Len(sources)

\* an error after a notification was sent and the Ledger had grown
C8_Witness ==
    /\ CycleOver /\ err # NoErr
    /\ Len(sent) > 0
    /\ last_items # startItems
    /\ ItemKey(sent[1]) \in last_items

(***************************************************************************)
(* C9.  An item whose normalization or date parsing fails is skipped       *)
(* alone.                                                                  *)
(***************************************************************************)
\* C9 as stated: a cycle in which an item failed to normalize still went
\* through all the adapters and items
C9_AsStated ==
    (CycleOver /\ err.kind \in {"format", "date"}) => RanThrough

(***************************************************************************)
(* C10.  The poll loop never stops on a failure.                           *)
(***************************************************************************)
\* C10: every cycle that is started returns, whatever was raised in it, and
\* after every cycle run() sleeps and starts another one
C10_LoopGoesOn ==
    /\ (pc \in {"fetch", "item"}) ~> (pc = "sleep")
    /\ (pc = "sleep") ~> (pc = "fetch" /\ srcIdx = 1)
    /\ (pc = "sleep" /\ err # NoErr) ~> (pc = "fetch" /\ err = NoErr)

\* a cycle that raised has been followed by another cycle
C10_Witness ==
    /\ pc = "fetch"
    /\ cycle = "later"
    /\ renotified # {}
    /\ err = NoErr

(***************************************************************************)
(* C11.  The IdentityKey separates the (source, title, date) triples.      *)
(***************************************************************************)
\* the announcements fetched in this cycle and in the remembered one
Seen == fetched \cup (IF earlier = <<>> THEN {} ELSE earlier[1])

Current == [source |-> sources[srcIdx], raw |-> items[itemIdx]]

\* C12: is_first_run is never set back to true; it is set to false only by
\* the step that ends a cycle in which every adapter and every item has been
\* gone through without an exception; and as long as it is true an item that
\* is gone through, of whichever adapter, is put in the Ledger when it is a
\* candidate and no send_notification call is made
C12_OneWay ==
    [][/\ ~is_first_run => ~is_first_run'
       /\ (is_first_run /\ ~is_first_run') =>
              /\ pc = "fetch" /\ RanThrough /\ err = NoErr
              /\ pc' = "sleep" /\ err' = NoErr
              /\ last_items' = CandidateKeys(fetched) \cup startItems
       /\ is_first_run' => ~call'.made /\ sent' = <<>>
       /\ (is_first_run /\ pc = "item" /\ err' = NoErr) =>
              last_items' = last_items \cup CandidateKeys({Current})]_vars

\* the second cycle runs in STEADY_STATE on a Ledger that holds, unnotified,
\* the keys of two adapters
C12_Witness ==
    /\ ~is_first_run /\ cycle = "later" /\ pc = "item"
    /\ Len(sources) = 2 /\ srcIdx = 2
    /\ Cardinality(last_items) = 2
    /\ notified = {}

(***************************************************************************)
(* C13.  The Ledger starts empty and only grows.                           *)
(***************************************************************************)
\* C13: the Ledger is empty when the monitor is constructed; no step, of a
\* cycle that ends in an error or not, takes a key out of it; and the step
\* that goes through an item whose key the Ledger holds leaves it as it is
C13_LedgerGrows ==
    /\ last_items = {}
    /\ [][/\ last_items \subseteq last_items'
          /\ (pc = "item" /\ Normalizes(Current)
                /\ Normalization[Current].item_key \in last_items) =>
                 last_items' = last_items]_vars

\* a first run with a cutoff, after a cycle that aborted: the keys the
\* Ledger held were added again and the Ledger is as it was
C13_Witness ==
    /\ debug_time # NoDate /\ is_first_run /\ cycle = "later"
    /\ pc = "fetch" /\ RanThrough
    /\ startItems # {} /\ startItems \subseteq CandidateKeys(fetched)
    /\ last_items = startItems

(***************************************************************************)
(* C14.  get_announcements never raises for an ordinary failure.           *)
(***************************************************************************)
\* the request got no answer, an error status, or a body that does not parse
Failed(response) ==
    IF response.kind = "neterr" THEN TRUE
    ELSE IF response.status # 200 THEN TRUE
         ELSE "json" \in DOMAIN response /\ ~response.json.ok

\* C14 as stated: when a request of a get_announcements call failed nothing
\* is raised into check_updates, and when all its requests failed the call
\* returned the empty list
C14_AsStated ==
    answers # <<>> =>
        /\ (\E i \in 1..Len(answers) : Failed(answers[i])) => err = NoErr
        /\ (\A i \in 1..Len(answers) : Failed(answers[i])) =>
               err = NoErr /\ items = <<>> /\ pc = "fetch"

(***************************************************************************)
(* C15.  WeixinPaySource: one of the two listings failing does not lose    *)
(* the other.                                                              *)
(***************************************************************************)
\* the listing request failed: no answer, an error status, a body that does
\* not parse or a non-zero error code
ListingFailed(response) ==
    IF Failed(response) THEN TRUE ELSE response.json.val.errorcode # 0

\* C15 as stated: when exactly one of the two requests of WeixinPaySource
\* failed, get_announcements returned the items of the other one
C15_AsStated ==
    (Len(answers) = 2 /\ ListingFailed(answers[1]) # ListingFailed(answers[2])) =>
        LET good == IF ListingFailed(answers[1]) THEN answers[2] ELSE answers[1]
        IN  err = NoErr /\ items = good.json.val.contentlist

(***************************************************************************)
(* C16.  Without the webhook URL the process does not start.               *)
(***************************************************************************)
\* C16: when WEBHOOK_URL is unset or empty the first step of the process is
\* its failure, and nothing else ever happens: no monitor is set up, no
\* cycle runs, no fetch is made and no notification is sent
C16_FailsFast ==
    /\ [](WEBHOOK_URL = "" =>
             /\ pc \in {"start", "failed"}
             /\ sources = <<>> /\ last_items = {}
             /\ cycle = "none" /\ arrived = <<>> /\ fetched = {}
             /\ ~call.made /\ notified = {})
    /\ [][(WEBHOOK_URL = "" /\ pc = "start") => pc' = "failed"]_vars

\* the process has failed at startup for want of the setting
C16_Witness == WEBHOOK_URL = "" /\ pc = "failed"

(***************************************************************************)
(* C17.  An announcement published before the monitor started is never     *)
(* notified.                                                               *)
(***************************************************************************)
\* C17 as stated: whatever lists the adapters return, the empty list
\* included, send_notification is never called for the announcement the
\* feed held when the monitor started
C17_AsStated ==
    published # <<>> => Normalization[published[1]].item_key \notin notified

(***************************************************************************)
(* C18.  DEBUG mode: what is dated before the cutoff is ignored, the first *)
(* run adds every candidate.                                               *)
(***************************************************************************)
\* C18: with a cutoff set, every key in the Ledger is the key of an
\* announcement dated on or after the cutoff; the step that goes through an
\* announcement dated before the cutoff changes nothing in the Ledger and
\* calls nothing, in every cycle; and in the first run the step that goes
\* through a candidate leaves its key in the Ledger and calls nothing,
\* whether the Ledger held the key or not
C18_CutoffAndBaseline ==
    /\ [](debug_time # NoDate =>
             \A k \in last_items :
                 \E p \in RawPairs :
                     /\ Normalizes(p) /\ Normalization[p].item_key = k
                     /\ DateGE(Normalization[p].item_date, debug_time))
    /\ [][(debug_time # NoDate /\ pc = "item" /\ Normalizes(Current)) =>
              IF DateGE(Normalization[Current].item_date, debug_time)
              THEN is_first_run =>
                       /\ last_items' = last_items \cup {Normalization[Current].item_key}
                       /\ ~call'.made /\ err' = NoErr
              ELSE last_items' = last_items /\ ~call'.made /\ err' = NoErr]_vars

\* a first run with a cutoff, after a cycle that aborted: a candidate whose
\* key the Ledger held and an announcement dated before the cutoff have been
\* gone through, and the Ledger is as it was
C18_Witness ==
    /\ debug_time # NoDate /\ is_first_run /\ cycle = "later"
    /\ pc = "fetch" /\ RanThrough
    /\ CandidateKeys(fetched) # {}
    /\ CandidateKeys(fetched) \subseteq startItems
    /\ \E p \in fetched : Normalizes(p) /\ ~OnOrAfterCutoff(p)
    /\ last_items = startItems

(***************************************************************************)
(* C19.  One cycle goes through the adapters in registration order and     *)
(* through the items of each in the order of its list.                     *)
(***************************************************************************)
\* the position of an adapter in self.sources
Pos(source) == CHOOSE i \in 1..Len(sources) : sources[i] = source

RECURSIVE IsSubSeq(_, _)
\* a is b with some entries left out
IsSubSeq(a, b) ==
    IF a = <<>> THEN TRUE
    ELSE IF b = <<>> THEN FALSE
         ELSE IF Head(a) = Head(b) THEN IsSubSeq(Tail(a), Tail(b))
              ELSE IsSubSeq(a, Tail(b))

\* the announcements of the lists of this cycle, in the order of the lists
Concatenated ==
    LET ok == SelectSeq(arrived, Normalizes)
    IN  [i \in 1..Len(ok) |-> Normalized(ok[i])]

\* C19: what the fetches of a cycle returned lies in registration order of
\* the adapters, none beyond the adapter the cycle stands at; the list being
\* gone through is the one fetched last; the notifications of the cycle are
\* in the order of the concatenated lists.  A call is made for the item the
\* loop stands at; after an item comes the next item of the same list, or,
\* after the last one, the next adapter; a fetch is made only when the list
\* before has been gone through, for the adapter the cycle stands at; and a
\* cycle starts only from the loop of run, after the sleep that follows the
\* cycle before
C19_InOrder ==
    /\ [](/\ \A i \in 1..(Len(arrived) - 1) :
                 Pos(arrived[i].source) <= Pos(arrived[i + 1].source)
          /\ \A i \in 1..Len(arrived) : Pos(arrived[i].source) <= srcIdx
          /\ pc = "item" =>
                 /\ itemIdx \in 1..Len(items)
                 /\ Len(items) <= Len(arrived)
                 /\ \A i \in 1..Len(items) :
                        arrived[Len(arrived) - Len(items) + i] =
                            [source |-> sources[srcIdx], raw |-> items[i]]
          /\ IsSubSeq(sent, Concatenated))
    /\ [][/\ call'.made =>
                 /\ pc = "item"
                 /\ call'.item = Normalized(Current)
                 /\ sent' = Append(sent, call'.item)
          /\ (pc = "item" /\ err' = NoErr) =>
                 IF itemIdx < Len(items)
                 THEN /\ pc' = "item" /\ itemIdx' = itemIdx + 1
                      /\ srcIdx' = srcIdx /\ items' = items
                 ELSE pc' = "fetch" /\ srcIdx' = srcIdx + 1
          /\ arrived' \notin {arrived, <<>>} =>
                 /\ pc = "fetch" /\ items = <<>>
                 /\ Len(arrived') >= Len(arrived)
                 /\ SubSeq(arrived', 1, Len(arrived)) = arrived
                 /\ \A i \in (Len(arrived) + 1)..Len(arrived') :
                        arrived'[i].source = sources[srcIdx]
          /\ (pc' = "fetch" /\ srcIdx' = 1 /\ pc # "fetch") => pc = "loop"]_vars

\* a cycle over two adapters has ended with a notification for an item of
\* each, the first adapter's first
C19_Witness ==
    /\ CycleOver /\ err = NoErr
    /\ Len(sources) = 2
    /\ Len(sent) = 2
    /\ Len(arrived) = 2
    /\ sent[1] = Normalized(arrived[1]) /\ sent[2] = Normalized(arrived[2])
    /\ arrived[1].source = sources[1] /\ arrived[2].source = sources[2]

(***************************************************************************)
(* C20.  Nothing is notified in FIRST_RUN, and FIRST_RUN lasts until a     *)
(* cycle has run through.                                                  *)
(***************************************************************************)
\* C20: with or without a cutoff, as long as is_first_run is true no
\* send_notification call has been made; a cycle that started in the first
\* run and ended with an exception leaves is_first_run true; a cycle that
\* starts in the first run after such a cycle notifies nothing and, when it
\* runs through, leaves the keys of its candidates in the Ledger; and
\* is_first_run is set to false only by the end of a cycle in which no fetch
\* raised and every item fetched was normalized and its date parsed
C20_SilentFirstRun ==
    /\ [](/\ is_first_run => notified = {} /\ sent = <<>> /\ ~call.made
          /\ (CycleOver /\ startFirst /\ err # NoErr) => is_first_run
          /\ (startFirst /\ cycle = "later") =>
                 /\ sent = <<>>
                 /\ (CycleOver /\ err = NoErr) =>
                        CandidateKeys(fetched) \subseteq last_items)
    /\ [][(is_first_run /\ ~is_first_run') =>
              /\ pc' = "sleep" /\ err' = NoErr
              /\ RanThrough
              /\ AllNormalize(fetched)]_vars

\* the first cycle aborted with keys in the Ledger; the second one started in
\* the first run, ran through, added keys and notified nothing
C20_Witness ==
    /\ cycle = "later" /\ startFirst /\ ~is_first_run
    /\ CycleOver /\ err = NoErr
    /\ startItems # {} /\ last_items # startItems
    /\ notified = {}
=============================================================================
